---- MODULE Spec2Model ----
(***************************************************************************)
(* Envelope types of jsonrpc-types (src/src/lib.rs) and the encoding that  *)
(* their serde derives give them: Version, Header, JsonRpcRequest<T>,      *)
(* Response<R, E> and JsonRpcResponse<R, E>.                               *)
(*                                                                         *)
(* A value is built by a constructor or a struct literal, encoded to a     *)
(* JSON value (serde_json::to_value), and decoded back                     *)
(* (serde_json::from_value); JSON produced elsewhere may also arrive and   *)
(* be decoded.                                                             *)
(***************************************************************************)
EXTENDS Integers, Sequences, FiniteSets, TLC

VARIABLES
    stage,   \* "idle", "built", "encoded", "roundtrip", "received", "decoded"
    ty,      \* the Rust type of the value in hand / the decode target
    msg,     \* the Rust value that was built
    call,    \* the constructor call that built msg
    wire,    \* the JSON value on the wire
    got      \* the result of decoding wire as ty

vars == <<stage, ty, msg, call, wire, got>>

\* Largest request identifier the model draws.
MaxId == 2

\* Longest params vector the model draws.
MaxParams == 1

-----------------------------------------------------------------------------
(* JSON values (serde_json::Value).  One record shape for every kind:      *)
(* k the kind, n the integer, s the text, a the array's items.             *)

JNull == [k |-> "null", n |-> 0, s |-> "", a |-> <<>>]
JBool(b) == [k |-> "bool", n |-> IF b THEN 1 ELSE 0, s |-> "", a |-> <<>>]
JInt(i) == [k |-> "int", n |-> i, s |-> "", a |-> <<>>]
JFrac(t) == [k |-> "frac", n |-> 0, s |-> t, a |-> <<>>]
JStr(t) == [k |-> "str", n |-> 0, s |-> t, a |-> <<>>]
JArr(items) == [k |-> "arr", n |-> 0, s |-> "", a |-> items]
JNested(t) == [k |-> "obj", n |-> 0, s |-> t, a |-> <<>>]

\* A key that an object does not carry.
Absent == [k |-> "absent", n |-> 0, s |-> "", a |-> <<>>]

EmptyObject == [key \in {} |-> JNull]

\* serde_json::Map::insert: a key already present is overwritten.
Insert(obj, key, val) ==
    [x \in DOMAIN obj \cup {key} |-> IF x = key THEN val ELSE obj[x]]

\* SerializeMap into serde_json::Value: the entries are inserted in the
\* order in which they are emitted.
RECURSIVE ToObject(_, _)
ToObject(entries, obj) ==
    IF entries = <<>> THEN obj
    ELSE ToObject(Tail(entries), Insert(obj, Head(entries)[1], Head(entries)[2]))

\* Result<T, serde_json::Error>: an error carries no value.
Ok(x) == [ok |-> TRUE, val |-> x]
Err(e) == [ok |-> FALSE, err |-> e]

-----------------------------------------------------------------------------
(* Version *)

Versions == {"One", "Two"}

\* Serialize for Version: a unit variant is written as its renamed name.
encVersion(v) == IF v = "One" THEN JStr("1.0") ELSE JStr("2.0")

\* decVersion with a default: a string that names no variant reads as Two.
decVersion_Defaulting(j) ==
    IF j.k # "str" THEN Err("invalid type")
    ELSE IF j.s = "1.0" THEN Ok("One")
    ELSE Ok("Two")

\* Deserialize for Version: only the two renamed names are variants.
decVersion(j) ==
    IF j.k # "str" THEN Err("invalid type")
    ELSE IF j.s = "1.0" THEN Ok("One")
    ELSE IF j.s = "2.0" THEN Ok("Two")
    ELSE Err("unknown variant")

-----------------------------------------------------------------------------
(* Field types: the types that appear as fields, results and errors. *)

\* serde_json::to_value of a field of type t.
encVal(t, x) ==
    CASE t = "Version" -> encVersion(x)
      [] t = "usize" -> JInt(x)
      [] t = "i32" -> JInt(x)
      [] t = "String" -> JStr(x)
      [] t = "unit" -> JNull
      [] t = "VecString" -> JArr(x)
      [] t = "Value" -> x

\* serde_json::from_value of a field of type t.
decVal(t, j) ==
    CASE t = "Version" -> decVersion(j)
      [] t = "usize" ->
            IF j.k # "int" THEN Err("invalid type")
            ELSE IF j.n < 0 THEN Err("invalid value")
            ELSE Ok(j.n)
      [] t = "i32" -> IF j.k = "int" THEN Ok(j.n) ELSE Err("invalid type")
      [] t = "String" -> IF j.k = "str" THEN Ok(j.s) ELSE Err("invalid type")
      [] t = "unit" -> IF j.k = "null" THEN Ok("()") ELSE Err("invalid type")
      [] t = "VecString" -> IF j.k = "arr" THEN Ok(j.a) ELSE Err("invalid type")
      [] t = "Value" -> Ok(j)

\* Option<T>: None is <<>>, Some(x) is <<x>>.
None == <<>>
Some(x) == <<x>>

\* decOption that defaults: a value T cannot decode reads as None.
decOption_Defaulting(t, j) ==
    IF j.k = "null" THEN Ok(None)
    ELSE LET r == decVal(t, j) IN IF r.ok THEN Ok(Some(r.val)) ELSE Ok(None)

\* Deserialize for Option<T>: JSON null is None, anything else is Some of
\* what T decodes.
decOption(t, j) ==
    IF j.k = "null" THEN Ok(None)
    ELSE LET r == decVal(t, j) IN IF r.ok THEN Ok(Some(r.val)) ELSE r

-----------------------------------------------------------------------------
(* Type descriptors.  A derive sees a struct as its field list; a field is *)
(* its name, its type, whether it is an Option, and whether it carries     *)
(* skip_serializing_if = "Option::is_none".                                *)

FieldD(name, t, option, skip) ==
    [name |-> name, ty |-> t, option |-> option, skip |-> skip]

StructD(name, fields, deny) ==
    [kind |-> "struct", name |-> name, fields |-> fields, deny |-> deny]

\* enum Version
VersionT == [kind |-> "enum", name |-> "Version", fields |-> <<>>, deny |-> FALSE]

\* Header with skip_serializing_if on id.
HeaderT_SkipId ==
    StructD("Header",
            <<FieldD("jsonrpc", "Version", FALSE, FALSE),
              FieldD("id", "usize", TRUE, TRUE)>>,
            FALSE)

\* struct Header { jsonrpc: Version, id: Option<usize> }
HeaderT ==
    StructD("Header",
            <<FieldD("jsonrpc", "Version", FALSE, FALSE),
              FieldD("id", "usize", TRUE, FALSE)>>,
            FALSE)

\* Response without skip_serializing_if on error.
ResponseT_NoSkip(R, E) ==
    StructD("Response",
            <<FieldD("result", R, TRUE, TRUE),
              FieldD("error", E, TRUE, FALSE)>>,
            FALSE)

\* struct Response<R, E> { result: Option<R>, error: Option<E> }, both
\* fields skipped when None.
ResponseT(R, E) ==
    StructD("Response",
            <<FieldD("result", R, TRUE, TRUE),
              FieldD("error", E, TRUE, TRUE)>>,
            FALSE)

\* Payload types T that JsonRpcRequest<T> is instantiated with.
\* struct TestPayload { method: String, params: Vec<String> }
TestPayloadT ==
    StructD("TestPayload",
            <<FieldD("method", "String", FALSE, FALSE),
              FieldD("params", "VecString", FALSE, FALSE)>>,
            FALSE)

\* A payload struct with #[serde(deny_unknown_fields)]: it rejects keys
\* that are not its own.
StrictT == StructD("Strict", <<FieldD("method", "String", FALSE, FALSE)>>, TRUE)

\* A payload struct with a field named like a header field.
TaggedT == StructD("Tagged", <<FieldD("id", "String", FALSE, FALSE)>>, FALSE)

\* A payload that is a map (HashMap<String, Value>): it captures every key
\* it is handed.
ExtrasT == [kind |-> "map", name |-> "HashMap", fields |-> <<>>, deny |-> FALSE]

FieldNames(T) == {T.fields[i].name : i \in 1..Len(T.fields)}

FieldOf(T, name) ==
    T.fields[CHOOSE i \in 1..Len(T.fields) : T.fields[i].name = name]

-----------------------------------------------------------------------------
(* Derived Serialize: the entries a value emits, in field order. *)

\* One field of a derived struct.
FieldEntries(f, v) ==
    IF f.option
    THEN IF v[f.name] = None
         THEN IF f.skip THEN <<>> ELSE << <<f.name, JNull>> >>
         ELSE << <<f.name, encVal(f.ty, v[f.name][1])>> >>
    ELSE << <<f.name, encVal(f.ty, v[f.name])>> >>

RECURSIVE StructEntries(_, _, _)
StructEntries(T, v, i) ==
    IF i > Len(T.fields) THEN <<>>
    ELSE FieldEntries(T.fields[i], v) \o StructEntries(T, v, i + 1)

\* A map emits one entry per key.
RECURSIVE MapEntries(_)
MapEntries(m) ==
    IF DOMAIN m = {} THEN <<>>
    ELSE LET key == CHOOSE x \in DOMAIN m : TRUE
         IN  << <<key, m[key]>> >> \o MapEntries([x \in DOMAIN m \ {key} |-> m[x]])

Entries(T, v) ==
    IF T.kind = "map" THEN MapEntries(v) ELSE StructEntries(T, v, 1)

\* serde_json::to_value of a struct or map on its own.
encStruct(T, v) == ToObject(Entries(T, v), EmptyObject)

-----------------------------------------------------------------------------
(* Derived Deserialize: from a JSON object. *)

\* One field: a missing Option is None, any other missing field fails.
decField(f, obj) ==
    IF f.name \in DOMAIN obj
    THEN IF f.option THEN decOption(f.ty, obj[f.name]) ELSE decVal(f.ty, obj[f.name])
    ELSE IF f.option THEN Ok(None) ELSE Err("missing field")

\* The derived visitor: unknown keys are ignored unless the struct denies
\* them; the first failing field fails the whole value.
decStruct(T, obj) ==
    LET bad == {i \in 1..Len(T.fields) : ~decField(T.fields[i], obj).ok}
    IN  IF T.deny /\ DOMAIN obj \ FieldNames(T) # {}
        THEN Err("unknown field")
        ELSE IF bad # {}
        THEN Err(decField(T.fields[CHOOSE i \in bad : \A j \in bad : i <= j], obj).err)
        ELSE Ok([name \in FieldNames(T) |-> decField(FieldOf(T, name), obj).val])

\* A map takes every entry it is handed.
decMap(obj) == Ok(obj)

-----------------------------------------------------------------------------
(* #[serde(flatten)]: the outer struct buffers every entry of the object;  *)
(* each flattened field is then decoded from the buffer in declaration     *)
(* order.  A struct claims the entries whose keys are its field names, and *)
(* claimed entries leave the buffer; a map reads what is left.             *)

\* flat_map_take_entry: the entries a struct recognises.
Claimed(buf, T) == [x \in DOMAIN buf \cap FieldNames(T) |-> buf[x]]

\* Remaining that leaves claimed entries in the buffer.
Remaining_Keeping(buf, T) == buf

\* The buffer after a flattened field of type T has been decoded.
Remaining(buf, T) ==
    IF T.kind = "struct"
    THEN [x \in DOMAIN buf \ FieldNames(T) |-> buf[x]]
    ELSE buf

\* The entries the decoder of a flattened field of type T is handed.
Handed(buf, T) == IF T.kind = "struct" THEN Claimed(buf, T) ELSE buf

decFlat(T, buf) ==
    IF T.kind = "struct" THEN decStruct(T, Handed(buf, T)) ELSE decMap(Handed(buf, T))

\* encRequest without flatten: the two fields nest under their names.
encRequest_Nested(T, r) ==
    ToObject(<< <<"header", JNested("header")>>, <<"payload", JNested("payload")>> >>,
             EmptyObject)

\* struct JsonRpcRequest<T> { #[flatten] header: Header, #[flatten] payload: T }
encRequest(T, r) ==
    ToObject(Entries(HeaderT, r.header) \o Entries(T, r.payload), EmptyObject)

decRequest(T, obj) ==
    LET h == decFlat(HeaderT, obj)
        p == decFlat(T, Remaining(obj, HeaderT))
    IN  IF ~h.ok THEN h
        ELSE IF ~p.ok THEN p
        ELSE Ok([header |-> h.val, payload |-> p.val])

\* struct JsonRpcResponse<R, E>(JsonRpcRequest<Response<R, E>>): a newtype
\* struct is encoded as the value it wraps.
encJsonRpcResponse(T, r) == encRequest(T, r[1])

decJsonRpcResponse(T, obj) ==
    LET r == decRequest(T, obj) IN IF r.ok THEN Ok(<<r.val>>) ELSE r

-----------------------------------------------------------------------------
(* The types a value in hand can have, and their codecs. *)

Ty(kind, T) == [kind |-> kind, T |-> T]

\* serde_json::to_value(&msg)
encode(t, v) ==
    CASE t.kind = "Version" -> encVersion(v)
      [] t.kind = "Header" -> encStruct(HeaderT, v)
      [] t.kind = "Response" -> encStruct(t.T, v)
      [] t.kind = "Request" -> encRequest(t.T, v)
      [] t.kind = "JsonRpcResponse" -> encJsonRpcResponse(t.T, v)

\* serde_json::from_value(wire)
decode(t, j) ==
    CASE t.kind = "Version" -> decVersion(j)
      [] t.kind = "Header" -> decStruct(HeaderT, j)
      [] t.kind = "Response" -> decStruct(t.T, j)
      [] t.kind = "Request" -> decRequest(t.T, j)
      [] t.kind = "JsonRpcResponse" -> decJsonRpcResponse(t.T, j)

-----------------------------------------------------------------------------
(* Constructors *)

\* Header::v1
Header_v1(id) == [jsonrpc |-> "One", id |-> id]

\* Header::v2
Header_v2(id) == [jsonrpc |-> "Two", id |-> id]

\* Response::result that fills the wrong field.
Response_result_Swapped(result) == [result |-> None, error |-> Some(result)]

\* Response::result
Response_result(result) == [result |-> Some(result), error |-> None]

\* Response::error
Response_error(error) == [result |-> None, error |-> Some(error)]

\* JsonRpcResponse::result
JsonRpcResponse_result(header, result) ==
    <<[header |-> header, payload |-> Response_result(result)]>>

\* JsonRpcResponse::error
JsonRpcResponse_error(header, error) ==
    <<[header |-> header, payload |-> Response_error(error)]>>

-----------------------------------------------------------------------------
(* The inputs the model draws. *)

Ids == 0..MaxId
OptIds == {None} \cup {Some(n) : n \in Ids}

\* The types R and E are instantiated with.
RTypes == {"unit", "String", "i32"}

Vals(t) ==
    CASE t = "unit" -> {"()"}
      [] t = "String" -> {"a", "success"}
      [] t = "i32" -> (-1)..1

OptVals(t) == {None} \cup {Some(x) : x \in Vals(t)}

ParamVals == UNION {[1..n -> {"a"}] : n \in 0..MaxParams}

ExtraVals == UNION {[K -> {JStr("x"), JNull}] : K \in SUBSET {"id", "extra"}}

PayloadTypes ==
    {TestPayloadT, StrictT, TaggedT, ExtrasT}
        \cup {ResponseT(R, E) : R \in RTypes, E \in RTypes}

PayloadVals(T) ==
    CASE T.name = "TestPayload" -> [method : {"a", "test"}, params : ParamVals]
      [] T.name = "Strict" -> [method : {"a", "test"}]
      [] T.name = "Tagged" -> [id : {"a"}]
      [] T.name = "HashMap" -> ExtraVals
      [] T.name = "Response" ->
            [result : OptVals(T.fields[1].ty), error : OptVals(T.fields[2].ty)]

\* JSON that arrives from elsewhere: what each key may hold.
VersionWires ==
    {JStr(t) : t \in {"1.0", "2.0", "3.0", "One", "1", ""}}
        \cup {JNull, JInt(1), JInt(2), JFrac("1.0"), JBool(TRUE)}

JsonrpcWires == {Absent, JStr("1.0"), JStr("2.0"), JStr("3.0"), JInt(2)}

IdWires ==
    {Absent, JNull, JStr("1"), JBool(TRUE), JFrac("1.5"), JArr(<<>>), JNested("{}")}
        \cup {JInt(n) : n \in (-1)..MaxId}

ShortIdWires == {Absent, JNull, JInt(0), JInt(-1), JStr("1")}

BodyWires == {Absent, JNull, JStr("a"), JInt(1)}

MethodWires == {Absent, JStr("a"), JInt(1)}

ParamsWires == {Absent, JArr(<<"a">>), JStr("a")}

ExtraWires == {Absent, JStr("x")}

\* The object that carries the keys of rec that are not Absent.
Present(rec) == [x \in {y \in DOMAIN rec : rec[y] # Absent} |-> rec[x]]

Only(T, name, S) == IF name \in FieldNames(T) \/ T.kind = "map" THEN S ELSE {Absent}

HeaderWires ==
    {Present(rec) : rec \in [jsonrpc : JsonrpcWires, id : IdWires, extra : ExtraWires]}

BodyObjects(T) ==
    {Present(rec) : rec \in [result : Only(T, "result", BodyWires),
                             error : Only(T, "error", BodyWires),
                             method : Only(T, "method", MethodWires),
                             params : Only(T, "params", ParamsWires),
                             extra : ExtraWires]}

RequestWires(T) ==
    {Present(rec) : rec \in [jsonrpc : JsonrpcWires \ {JInt(2)},
                             id : ShortIdWires,
                             result : Only(T, "result", BodyWires),
                             error : Only(T, "error", BodyWires),
                             method : Only(T, "method", MethodWires),
                             params : Only(T, "params", ParamsWires),
                             extra : ExtraWires]}

NoCall == [fn |-> "none", args |-> <<>>]
NotDecoded == Err("not decoded")

-----------------------------------------------------------------------------
(* Actions *)

Built(t, v, c) ==
    /\ stage' = "built"
    /\ ty' = t
    /\ msg' = v
    /\ call' = c
    /\ wire' = JNull
    /\ got' = NotDecoded

\* A Version literal.
NewVersion ==
    /\ stage = "idle"
    /\ \E v \in Versions :
        Built(Ty("Version", VersionT), v, [fn |-> "Version", args |-> <<v>>])

HeaderV1 ==
    /\ stage = "idle"
    /\ \E id \in OptIds :
        Built(Ty("Header", HeaderT), Header_v1(id),
              [fn |-> "Header::v1", args |-> <<id>>])

HeaderV2 ==
    /\ stage = "idle"
    /\ \E id \in OptIds :
        Built(Ty("Header", HeaderT), Header_v2(id),
              [fn |-> "Header::v2", args |-> <<id>>])

\* JsonRpcRequest { header, payload } around the header in hand.
NewRequest ==
    /\ stage = "built" /\ ty.kind = "Header"
    /\ \E T \in PayloadTypes : \E p \in PayloadVals(T) :
        Built(Ty("Request", T), [header |-> msg, payload |-> p],
              [fn |-> "JsonRpcRequest", args |-> <<msg, p>>])

ResponseResult ==
    /\ stage = "idle"
    /\ \E R \in RTypes, E \in RTypes : \E r \in Vals(R) :
        Built(Ty("Response", ResponseT(R, E)), Response_result(r),
              [fn |-> "Response::result", args |-> <<r>>])

ResponseError ==
    /\ stage = "idle"
    /\ \E R \in RTypes, E \in RTypes : \E e \in Vals(E) :
        Built(Ty("Response", ResponseT(R, E)), Response_error(e),
              [fn |-> "Response::error", args |-> <<e>>])

\* Response { result, error }: the fields are public.
ResponseLiteral ==
    /\ stage = "idle"
    /\ \E R \in RTypes, E \in RTypes : \E r \in OptVals(R), e \in OptVals(E) :
        Built(Ty("Response", ResponseT(R, E)), [result |-> r, error |-> e],
              [fn |-> "Response", args |-> <<r, e>>])

JsonRpcResponseResult ==
    /\ stage = "built" /\ ty.kind = "Header"
    /\ \E R \in RTypes, E \in RTypes : \E r \in Vals(R) :
        Built(Ty("JsonRpcResponse", ResponseT(R, E)), JsonRpcResponse_result(msg, r),
              [fn |-> "JsonRpcResponse::result", args |-> <<msg, r>>])

JsonRpcResponseError ==
    /\ stage = "built" /\ ty.kind = "Header"
    /\ \E R \in RTypes, E \in RTypes : \E e \in Vals(E) :
        Built(Ty("JsonRpcResponse", ResponseT(R, E)), JsonRpcResponse_error(msg, e),
              [fn |-> "JsonRpcResponse::error", args |-> <<msg, e>>])

\* serde_json::to_value(&msg)
Encode ==
    /\ stage = "built"
    /\ stage' = "encoded"
    /\ wire' = encode(ty, msg)
    /\ UNCHANGED <<ty, msg, call, got>>

Received(t, j) ==
    /\ stage' = "received"
    /\ ty' = t
    /\ wire' = j
    /\ msg' = None
    /\ call' = NoCall
    /\ got' = NotDecoded

\* JSON built elsewhere arrives, to be decoded as some type.
ReceiveVersion ==
    /\ stage = "idle"
    /\ \E j \in VersionWires : Received(Ty("Version", VersionT), j)

ReceiveHeader ==
    /\ stage = "idle"
    /\ \E j \in HeaderWires : Received(Ty("Header", HeaderT), j)

ReceiveResponse ==
    /\ stage = "idle"
    /\ \E R \in RTypes, E \in RTypes : \E j \in BodyObjects(ResponseT(R, E)) :
        Received(Ty("Response", ResponseT(R, E)), j)

ReceiveRequest ==
    /\ stage = "idle"
    /\ \E T \in PayloadTypes : \E j \in RequestWires(T) : Received(Ty("Request", T), j)

ReceiveJsonRpcResponse ==
    /\ stage = "idle"
    /\ \E R \in RTypes, E \in RTypes : \E j \in RequestWires(ResponseT(R, E)) :
        Received(Ty("JsonRpcResponse", ResponseT(R, E)), j)

\* serde_json::from_value(wire)
Decode ==
    /\ stage \in {"encoded", "received"}
    /\ stage' = IF stage = "encoded" THEN "roundtrip" ELSE "decoded"
    /\ got' = decode(ty, wire)
    /\ UNCHANGED <<ty, msg, call, wire>>

\* The value and its encodings are dropped; the next message starts afresh.
Done ==
    /\ stage \in {"roundtrip", "decoded"}
    /\ stage' = "idle"
    /\ ty' = Ty("Version", VersionT)
    /\ msg' = None
    /\ call' = NoCall
    /\ wire' = JNull
    /\ got' = NotDecoded

Init ==
    /\ stage = "idle"
    /\ ty = Ty("Version", VersionT)
    /\ msg = None
    /\ call = NoCall
    /\ wire = JNull
    /\ got = NotDecoded

Next ==
    \/ NewVersion
    \/ HeaderV1
    \/ HeaderV2
    \/ NewRequest
    \/ ResponseResult
    \/ ResponseError
    \/ ResponseLiteral
    \/ JsonRpcResponseResult
    \/ JsonRpcResponseError
    \/ Encode
    \/ ReceiveVersion
    \/ ReceiveHeader
    \/ ReceiveResponse
    \/ ReceiveRequest
    \/ ReceiveJsonRpcResponse
    \/ Decode
    \/ Done

Spec == Init /\ [][Next]_vars

-----------------------------------------------------------------------------
(* Properties *)

HeaderKeys == {"jsonrpc", "id"}

\* C1: a request whose payload is a struct with no field named jsonrpc or
\* id decodes from its own encoding, to a value equal to the original.
C1_RequestRoundTrip ==
    (/\ stage = "roundtrip"
     /\ ty.kind = "Request"
     /\ ty.T.kind = "struct"
     /\ FieldNames(ty.T) \cap HeaderKeys = {})
        => got = Ok(msg)

\* C2: a response built by JsonRpcResponse::result(h, r) decodes from its
\* own encoding with header h, result Some(r) and error None, whatever r
\* encodes to; and symmetrically for JsonRpcResponse::error(h, e).
C2_ResponseRoundTrip ==
    (stage = "roundtrip" /\ ty.kind = "JsonRpcResponse")
        => /\ got.ok
           /\ got.val[1].header = call.args[1]
           /\ call.fn = "JsonRpcResponse::result"
                => got.val[1].payload = [result |-> Some(call.args[2]), error |-> None]
           /\ call.fn = "JsonRpcResponse::error"
                => got.val[1].payload = [result |-> None, error |-> Some(call.args[2])]

\* C3: One is written "1.0" and Two "2.0"; "1.0" reads as One and "2.0" as
\* Two, so a version survives the round trip; every other string fails to
\* decode, alone or as the jsonrpc value of a header.
C3_VersionBijection ==
    /\ (stage = "encoded" /\ ty.kind = "Version")
        => /\ wire.k = "str"
           /\ msg = "One" <=> wire.s = "1.0"
           /\ msg = "Two" <=> wire.s = "2.0"
    /\ (stage = "roundtrip" /\ ty.kind = "Version") => got = Ok(msg)
    /\ (stage = "decoded" /\ ty.kind = "Version" /\ wire.k = "str")
        => /\ wire.s = "1.0" => got = Ok("One")
           /\ wire.s = "2.0" => got = Ok("Two")
           /\ wire.s \notin {"1.0", "2.0"} => ~got.ok
    /\ (/\ stage = "decoded"
        /\ ty.kind \in {"Header", "Request", "JsonRpcResponse"}
        /\ "jsonrpc" \in DOMAIN wire
        /\ wire["jsonrpc"].k = "str"
        /\ wire["jsonrpc"].s \notin {"1.0", "2.0"})
        => ~got.ok

\* The object {"jsonrpc": "3.0", "id": 1} was decoded as a Header and failed.
C3_Witness ==
    /\ stage = "decoded"
    /\ ty.kind = "Header"
    /\ DOMAIN wire = HeaderKeys
    /\ wire["jsonrpc"] = JStr("3.0")
    /\ wire["id"] = JInt(1)
    /\ ~got.ok

\* C4: an encoded header has exactly the keys jsonrpc and id; jsonrpc holds
\* the version string, and id holds the number n for Some(n) and null for
\* None.
C4_HeaderShape ==
    (stage = "encoded" /\ ty.kind = "Header")
        => /\ DOMAIN wire = HeaderKeys
           /\ wire["jsonrpc"] = JStr(IF msg.jsonrpc = "One" THEN "1.0" ELSE "2.0")
           /\ msg.id = None => wire["id"] = JNull
           /\ msg.id # None => wire["id"] = JInt(msg.id[1])

\* A header without an id was encoded, and the id key is there, holding null.
C4_Witness ==
    /\ stage = "encoded"
    /\ ty.kind = "Header"
    /\ msg.id = None
    /\ "id" \in DOMAIN wire
    /\ wire["id"] = JNull

\* C5: an encoded response body carries the key result exactly when result
\* is present and the key error exactly when error is present, and no other
\* key.
C5_OmitAbsent ==
    (stage = "encoded" /\ ty.kind = "Response")
        => /\ "result" \in DOMAIN wire <=> msg.result # None
           /\ "error" \in DOMAIN wire <=> msg.error # None
           /\ DOMAIN wire \subseteq {"result", "error"}

\* A body with only a result was encoded, and the object has no error key.
C5_Witness ==
    /\ stage = "encoded"
    /\ ty.kind = "Response"
    /\ msg.result # None
    /\ msg.error = None
    /\ DOMAIN wire = {"result"}

\* C6: the result constructors give result Some(r) and error None, the
\* error constructors give error Some(e) and result None, and the
\* JsonRpcResponse constructors keep the header they are given.
C6_ExactlyOne ==
    /\ (stage = "built" /\ call.fn = "Response::result")
        => msg.result = Some(call.args[1]) /\ msg.error = None
    /\ (stage = "built" /\ call.fn = "Response::error")
        => msg.error = Some(call.args[1]) /\ msg.result = None
    /\ (stage = "built" /\ call.fn = "JsonRpcResponse::result")
        => /\ msg[1].header = call.args[1]
           /\ msg[1].payload.result = Some(call.args[2])
           /\ msg[1].payload.error = None
    /\ (stage = "built" /\ call.fn = "JsonRpcResponse::error")
        => /\ msg[1].header = call.args[1]
           /\ msg[1].payload.error = Some(call.args[2])
           /\ msg[1].payload.result = None

\* JsonRpcResponse::error built a response around a header with an id.
C6_Witness ==
    /\ stage = "built"
    /\ call.fn = "JsonRpcResponse::error"
    /\ msg[1].header.id # None
    /\ msg[1].payload.result = None
    /\ msg[1].payload.error # None

\* C7: decoding an object as a Header fails, and yields no value, when the
\* jsonrpc key is missing, when id holds something that is neither null nor
\* an integer, and when id holds a negative integer.
C7_HeaderDecodeFails ==
    (stage = "decoded" /\ ty.kind = "Header")
        => /\ "jsonrpc" \notin DOMAIN wire => ~got.ok
           /\ ("id" \in DOMAIN wire /\ wire["id"].k \notin {"null", "int"}) => ~got.ok
           /\ ("id" \in DOMAIN wire /\ wire["id"].k = "int" /\ wire["id"].n < 0) => ~got.ok
           /\ ~got.ok => "val" \notin DOMAIN got

\* An object with a good jsonrpc and a negative id was decoded, and failed.
C7_Witness ==
    /\ stage = "decoded"
    /\ ty.kind = "Header"
    /\ "jsonrpc" \in DOMAIN wire
    /\ wire["jsonrpc"] = JStr("2.0")
    /\ "id" \in DOMAIN wire
    /\ wire["id"] = JInt(-1)
    /\ ~got.ok

\* The flattened object of a request: the union of the keys of the header
\* and of the payload, each key with the value it has in the encoding it
\* comes from.
Flattened(obj, h, p) ==
    /\ DOMAIN obj = DOMAIN h \cup DOMAIN p
    /\ \A x \in DOMAIN h : obj[x] = h[x]
    /\ \A x \in DOMAIN p : obj[x] = p[x]

\* C8 as stated: every encoded request is the flattened object of its
\* header and its payload.
C8_Original ==
    (stage = "encoded" /\ ty.kind = "Request")
        => Flattened(wire, encStruct(HeaderT, msg.header), encStruct(ty.T, msg.payload))

\* C8: an encoded request whose payload emits no key named jsonrpc or id is
\* the flattened object of its header and its payload.
C8_Flattening ==
    (/\ stage = "encoded"
     /\ ty.kind = "Request"
     /\ DOMAIN encStruct(ty.T, msg.payload) \cap HeaderKeys = {})
        => Flattened(wire, encStruct(HeaderT, msg.header), encStruct(ty.T, msg.payload))

\* A request with a TestPayload was encoded to an object of four keys.
C8_Witness ==
    /\ stage = "encoded"
    /\ ty.kind = "Request"
    /\ ty.T.name = "TestPayload"
    /\ DOMAIN wire = {"jsonrpc", "id", "method", "params"}
    /\ wire["method"] = JStr("test")

\* C9 as stated: the payload is decoded from the whole object, so a payload
\* that captures the keys it is handed holds jsonrpc and id, and a payload
\* that rejects unknown keys fails on them.
C9_Original ==
    (stage = "decoded" /\ ty.kind = "Request")
        => /\ (ty.T.kind = "map" /\ got.ok)
                => DOMAIN wire \cap HeaderKeys \subseteq DOMAIN got.val.payload
           /\ (ty.T.deny /\ DOMAIN wire \cap HeaderKeys # {}) => ~got.ok

\* C9: the header claims the jsonrpc and id entries, and the payload is
\* decoded from what is left: a capturing payload holds exactly the other
\* entries, and a payload that rejects unknown keys decodes whenever the
\* header and its own fields do.
C9_HeaderKeysConsumed ==
    (stage = "decoded" /\ ty.kind = "Request")
        => /\ (ty.T.kind = "map" /\ got.ok)
                => /\ DOMAIN got.val.payload = DOMAIN wire \ HeaderKeys
                   /\ \A x \in DOMAIN got.val.payload : got.val.payload[x] = wire[x]
           /\ ty.T.deny
                => (got.ok <=> /\ "jsonrpc" \in DOMAIN wire
                               /\ wire["jsonrpc"] \in {JStr("1.0"), JStr("2.0")}
                               /\ "id" \in DOMAIN wire
                                    => \/ wire["id"] = JNull
                                       \/ wire["id"].k = "int" /\ wire["id"].n >= 0
                               /\ "method" \in DOMAIN wire
                               /\ wire["method"].k = "str")

\* An object with jsonrpc, id and one more key was decoded as a request
\* with a capturing payload, which holds the one other key.
C9_Witness ==
    /\ stage = "decoded"
    /\ ty.kind = "Request"
    /\ ty.T.kind = "map"
    /\ HeaderKeys \subseteq DOMAIN wire
    /\ got.ok
    /\ DOMAIN got.val.payload = {"extra"}

\* C10: a decoded response body has result populated exactly when the
\* object carries the key result, with the value the key decodes to, and
\* likewise for error.
C10_KeyPresentFieldPopulated ==
    (stage = "decoded" /\ ty.kind = "Response" /\ got.ok)
        => \A x \in {"result", "error"} :
              IF x \in DOMAIN wire
              THEN /\ decVal(FieldOf(ty.T, x).ty, wire[x]).ok
                   /\ got.val[x] = Some(decVal(FieldOf(ty.T, x).ty, wire[x]).val)
              ELSE got.val[x] = None

====
